---- MODULE Spec2Model ----
(***************************************************************************)
(* Model of the hwpxdiet document optimizer.                               *)
(*                                                                         *)
(*   - compressImage, optimizeZipBasedDoc and optimizePDF are modelled     *)
(*     from src/unnamed/part_000: the four-argument revision of            *)
(*     services/optimizerService.ts that App calls (file, quality,         *)
(*     skipPng, onProgress).  src/services/optimizerService.ts is the      *)
(*     three-argument revision of the same two walkers: the same control   *)
(*     flow without the skipPng branches.                                  *)
(*   - App (useState cells, handleFileChange, runOptimization, reset, the  *)
(*     tab buttons) is modelled from src/components/Layout.tsx.            *)
(*                                                                         *)
(* An async function is a process whose position is pc; every await is a   *)
(* position, and the action that leaves it models the promise settling     *)
(* (resolve or reject) together with the synchronous code that follows up  *)
(* to the next await.  The image codec, JSZip and pdf-lib are external:    *)
(* what they return (an encoded size, a failure, a serialized size) is a   *)
(* nondeterministic choice.                                                *)
(***************************************************************************)
EXTENDS Integers, Sequences, FiniteSets, TLC

(***************************************************************************)
(* Bounds of the model (inputs only).                                      *)
(***************************************************************************)
\* most entries in a generated archive
MaxEntries == 2
\* most pages in a generated PDF
MaxPages == 2
\* number of indirect objects in a generated PDF
MaxObjs == 2
\* byte length of every embedded asset of a generated document
AssetSize == 2
\* byte length (file.size) of every generated document
FileSize == 3

(***************************************************************************)
(* Option values: None is null, Some(x) a value.                           *)
(***************************************************************************)
None == <<>>

Some(x) == <<x>>

SeqUpTo(S, n) == UNION {[1..k -> S] : k \in 0..n}

(***************************************************************************)
(* Pure helpers of the walkers.                                            *)
(***************************************************************************)
\* String.prototype.toLowerCase on the extensions the model generates
ToLowerCase(ext) ==
    CASE ext = "PNG" -> "png"
      [] ext = "JPG" -> "jpg"
      [] OTHER -> ext

\* /\.(jpe?g|png|gif|bmp)$/i.test(path): path is [stem, ext], ext the text
\* after the last dot.  (IsImagePathBug: the filter lets every entry through.)
IsImagePathBug(path) == TRUE

IsImagePath(path) == ToLowerCase(path.ext) \in {"jpg", "jpeg", "png", "gif", "bmp"}

\* path.toLowerCase().endsWith('.png')
EndsWithPng(path) == ToLowerCase(path.ext) = "png"

\* skipPng && path.toLowerCase().endsWith('.png').  (ZipSkipsBug: the option
\* is ignored, as in the revision without it.)
ZipSkipsBug(skip, path) == FALSE

ZipSkips(skip, path) == skip /\ EndsWithPng(path)

\* Math.round(num / den) for num >= 0, den > 0: halves round up
MathRound(num, den) == (2 * num + den) \div (2 * den)

\* 10 + Math.round((i + 1) / imageFiles.length * 80), i the 0-based index.
\* (ZipProgressBug counts the entries left instead of the entries done.)
ZipProgressBug(i, n) == 10 + MathRound((n - i) * 80, n)

ZipProgress(i, n) == 10 + MathRound((i + 1) * 80, n)

\* 15 + Math.round((processedImages / totalImages) * 75).  (PdfProgressBug
\* counts the references left instead of the references done.)
PdfProgressBug(processed, total) == 15 + MathRound((total - processed + 1) * 75, total)

PdfProgress(processed, total) == 15 + MathRound(processed * 75, total)

\* compressedImage.size < imageBytes.size.  (AcceptsBug: <= for <.)
AcceptsBug(newSize, oldSize) == newSize <= oldSize

Accepts(newSize, oldSize) == newSize < oldSize

\* ((originalSize - size) / originalSize) * 100 as the exact fraction num/den
Percentage(originalSize, size) ==
    [num |-> (originalSize - size) * 100, den |-> originalSize]

\* Math.max(0, x) on a fraction with a positive denominator
MathMax0(x) == IF x.num < 0 THEN [num |-> 0, den |-> 1] ELSE x

\* the literal 0 of reductionPercentage: 0
Zero == [num |-> 0, den |-> 1]

(***************************************************************************)
(* compressImage: the target MIME type, and the outcomes of the codec.     *)
(***************************************************************************)
\* the declared types (blob.type) compressImage is tried on: none, the raster
\* types, and a second name of PNG
TypeInputs ==
    {"", "image/jpeg", "image/png", "image/gif", "image/webp", "image/bmp", "image/x-png"}

\* the characters of a type string
Chars(type) ==
    CASE type = "image/jpeg" -> <<"i", "m", "a", "g", "e", "/", "j", "p", "e", "g">>
      [] type = "image/png" -> <<"i", "m", "a", "g", "e", "/", "p", "n", "g">>
      [] type = "image/gif" -> <<"i", "m", "a", "g", "e", "/", "g", "i", "f">>
      [] type = "image/webp" -> <<"i", "m", "a", "g", "e", "/", "w", "e", "b", "p">>
      [] type = "image/bmp" -> <<"i", "m", "a", "g", "e", "/", "b", "m", "p">>
      [] type = "image/x-png" -> <<"i", "m", "a", "g", "e", "/", "x", "-", "p", "n", "g">>
      [] OTHER -> <<>>

\* String.prototype.includes: w occurs in s
Includes(s, w) ==
    \E k \in 0..(Len(s) - Len(w)) : SubSeq(s, k + 1, k + Len(w)) = w

\* originalType.includes('png') || originalType.includes('gif')
IsTransparentFormat(type) ==
    \/ Includes(Chars(type), <<"p", "n", "g">>)
    \/ Includes(Chars(type), <<"g", "i", "f">>)

\* isTransparentFormat ? 'image/webp' : 'image/jpeg'.  (TargetMimeBug: always
\* JPEG, whatever the source type.)
TargetMimeBug(type) == "image/jpeg"

TargetMime(type) == IF IsTransparentFormat(type) THEN "image/webp" ELSE "image/jpeg"

\* what the promise of compressImage settles to: rejected, or a blob of some
\* size (smaller than, equal to or larger than the asset)
Rejected == [ok |-> FALSE, size |-> 0]

Resolved(n) == [ok |-> TRUE, size |-> n]

CompressOutcomes == {Rejected} \cup {Resolved(n) : n \in (AssetSize - 1)..(AssetSize + 1)}

\* the blob compressImage resolves with
CompressImage(blob, q, outcome) ==
    [size |-> outcome.size, type |-> TargetMime(blob.type), data |-> "recompressed"]

(***************************************************************************)
(* Documents.  A File is [name, size, content]; its content is what the    *)
(* container library would parse from its bytes.                           *)
(***************************************************************************)
\* the bytes of an asset as first found in the document; the Blob that
\* JSZip's async('blob') makes of an entry has the empty type
OriginalBlob == [size |-> AssetSize, type |-> "", data |-> "original"]

NoBlob == [size |-> 0, type |-> "", data |-> "none"]

\* extensions of generated archive entries: two raster ones, an upper-case
\* one, and one outside the raster set
ExtInputs == {"jpg", "png", "PNG", "xml"}

ZipEntriesOf(exts) ==
    [j \in 1..Len(exts) |-> [path |-> [stem |-> j, ext |-> exts[j]], blob |-> OriginalBlob]]

\* PDF objects a reference can resolve to
RawImage == [kind |-> "PDFRawStream", subtype |-> "Image", smask |-> FALSE, blob |-> OriginalBlob]

RawImageSMask == [kind |-> "PDFRawStream", subtype |-> "Image", smask |-> TRUE, blob |-> OriginalBlob]

DictImage == [kind |-> "PDFDict", subtype |-> "Image", smask |-> FALSE, blob |-> NoBlob]

RawForm == [kind |-> "PDFRawStream", subtype |-> "Form", smask |-> FALSE, blob |-> OriginalBlob]

ObjInputs == <<RawImage, RawImageSMask, DictImage, RawForm>>

\* object tables up to renumbering of the objects: kinds in non-decreasing order
ObjTables ==
    {[r \in 1..MaxObjs |-> ObjInputs[f[r]]] :
        f \in {g \in [1..MaxObjs -> 1..Len(ObjInputs)] :
                  \A r \in 1..MaxObjs : r < MaxObjs => g[r] <= g[r + 1]}}

\* an entry of a page's XObject dictionary: a PDFRef, or a direct object
DirectEntry == [isRef |-> FALSE, ref |-> 0]

RefEntry(r) == [isRef |-> TRUE, ref |-> r]

\* a page: whether Resources and XObject are PDFDicts, and the XObject entries
\* (generated pages carry at most one)
PageInputs ==
    {[resources |-> FALSE, xobject |-> FALSE, entries |-> <<>>],
     [resources |-> TRUE, xobject |-> FALSE, entries |-> <<>>]}
    \cup {[resources |-> TRUE, xobject |-> TRUE, entries |-> es] :
            es \in SeqUpTo({DirectEntry} \cup {RefEntry(r) : r \in 1..MaxObjs}, 1)}

ZipContents ==
    {[kind |-> "zip", entries |-> ZipEntriesOf(exts), pages |-> <<>>, objects |-> <<>>] :
        exts \in SeqUpTo(ExtInputs, MaxEntries)}

PdfContents ==
    {[kind |-> "pdf", entries |-> <<>>, pages |-> ps, objects |-> os] :
        ps \in SeqUpTo(PageInputs, MaxPages), os \in ObjTables}

InvalidContent == [kind |-> "invalid", entries |-> <<>>, pages |-> <<>>, objects |-> <<>>]

Files ==
    {[name |-> "doc", size |-> FileSize, content |-> c] :
        c \in ZipContents \cup PdfContents \cup {InvalidContent}}

\* sizes a serializer (zip.generateAsync, pdfDoc.save) can produce
SerializedSizes == (FileSize - 1)..(FileSize + 1)

\* the slider of Layout: min, the default of useState, max
Qualities == {10, 70, 100}

Tabs == {"HWPX", "PDF", "PPTX_SHOW"}

(***************************************************************************)
(* State.                                                                  *)
(***************************************************************************)
VARIABLES
    \* the useState cells of App
    activeTab, quality, skipPng, file, isProcessing, progress, result, error,
    \* the one invocation of runOptimization: its position, the arguments its
    \* closure captured, and the value its await produced (let res)
    pc, args, res,
    \* locals of optimizeZipBasedDoc
    zip, imageFiles, i,
    \* locals of optimizePDF; cursor is the position of the iterator of
    \* for (const ref of imageRefs)
    pdfDoc, imageRefs, cursor, processedImages,
    \* const logs of either walker
    logs,
    \* history: what the run did, in order (calls, progress reports, log
    \* lines, codec invocations, console output, replacements, serialization,
    \* the outcome)
    events,
    \* one call of compressImage taken by itself: its arguments, its locals
    \* (targetMime, objectUrl, the canvas) and how its promise settled
    codec

appVars == <<activeTab, quality, skipPng, file, isProcessing, progress, result, error>>

zipVars == <<zip, imageFiles, i>>

pdfVars == <<pdfDoc, imageRefs, cursor, processedImages>>

vars == <<appVars, pc, args, res, zipVars, pdfVars, logs, events, codec>>

Ev(e, a, v) == [ev |-> e, at |-> a, val |-> v]

Log(m, n) == [msg |-> m, n |-> n]

NoArgs == [file |-> [name |-> "", size |-> 0, content |-> InvalidContent],
           quality |-> 0, skipPng |-> FALSE, walker |-> "none"]

NoPdf == [pages |-> <<>>, objects |-> <<>>]

\* activeTab === 'HWPX' || activeTab === 'PPTX_SHOW' ? optimizeZipBasedDoc : optimizePDF.
\* (WalkerOfBug: the PPTX_SHOW tab is left out of the test.)
WalkerOfBug(tab) == IF tab = "HWPX" THEN "optimizeZipBasedDoc" ELSE "optimizePDF"

WalkerOf(tab) ==
    IF tab = "HWPX" \/ tab = "PPTX_SHOW" THEN "optimizeZipBasedDoc" ELSE "optimizePDF"

\* the positions of a run that is under way
Running == pc \notin {"idle", "returned", "threw"}

(***************************************************************************)
(* runOptimization: its entry, and the two ways its await ends.            *)
(***************************************************************************)
\* the click on the start button, rendered when !result && file && !isProcessing;
\* runs up to the first await of the walker
RunOptimization ==
    /\ file # None /\ ~isProcessing /\ result = None
    /\ isProcessing' = TRUE
    /\ error' = None
    /\ args' = [file |-> file[1], quality |-> quality, skipPng |-> skipPng,
                walker |-> WalkerOf(activeTab)]
    /\ res' = None
    /\ zip' = <<>> /\ imageFiles' = <<>> /\ i' = 0
    /\ pdfDoc' = NoPdf /\ imageRefs' = <<>> /\ cursor' = 0 /\ processedImages' = 0
    /\ IF WalkerOf(activeTab) = "optimizeZipBasedDoc"
       THEN /\ logs' = <<Log("Starting optimization for", 0)>>
            /\ progress' = 5
            /\ events' = <<Ev("optimizeZipBasedDoc", 0, 0), Ev("progress", 0, 5)>>
            /\ pc' = "zip_loadAsync"
       ELSE /\ logs' = <<Log("Starting PDF optimization", 0)>>
            /\ progress' = 10
            /\ events' = <<Ev("optimizePDF", 0, 0), Ev("progress", 0, 10)>>
            /\ pc' = "pdf_arrayBuffer"
    /\ UNCHANGED <<activeTab, quality, skipPng, file, result>>
    /\ UNCHANGED codec

\* res = await walker(...); setResult(res); finally setIsProcessing(false).
\* evs are the events of the step that returns
Return(r, evs) ==
    /\ res' = Some(r)
    /\ result' = Some(r)
    /\ isProcessing' = FALSE
    /\ pc' = "returned"
    /\ events' = events \o evs \o <<Ev("return", 0, 0)>>
    /\ UNCHANGED <<activeTab, quality, skipPng, file, error, args>>

\* catch (err) setError(...); finally setIsProcessing(false)
Throw(msg) ==
    /\ error' = Some(msg)
    /\ isProcessing' = FALSE
    /\ pc' = "threw"
    /\ events' = events \o <<Ev("throw", 0, 0)>>
    /\ UNCHANGED <<activeTab, quality, skipPng, file, progress, result, args, res,
                   zipVars, pdfVars, logs>>

\* the File handed back as the result's blob, and a freshly serialized one
InputBlob(f) == [size |-> f.size, type |-> "", data |-> "input"]

SerializedBlob(n, mime) == [size |-> n, type |-> mime, data |-> "serialized"]

(***************************************************************************)
(* optimizeZipBasedDoc                                                     *)
(***************************************************************************)
\* Object.keys(zip.files).filter(...): the indices of the matching entries
RECURSIVE FilterImages(_, _)
FilterImages(entries, j) ==
    IF j > Len(entries) THEN <<>>
    ELSE IF IsImagePath(entries[j].path)
         THEN <<j>> \o FilterImages(entries, j + 1)
         ELSE FilterImages(entries, j + 1)

\* the zero-images return: reductionPercentage: 0, blob: file.
\* (ZipEmptyResultBug hands back a serialized archive instead of the file.)
ZipEmptyResultBug(f, ls) ==
    [originalSize |-> f.size, compressedSize |-> f.size, fileName |-> f.name,
     reductionPercentage |-> Zero, blob |-> SerializedBlob(f.size, "application/zip"),
     optimizationLogs |-> ls]

ZipEmptyResult(f, ls) ==
    [originalSize |-> f.size, compressedSize |-> f.size, fileName |-> f.name,
     reductionPercentage |-> Zero, blob |-> InputBlob(f), optimizationLogs |-> ls]

ZipResult(f, n, ls) ==
    [originalSize |-> f.size, compressedSize |-> n, fileName |-> f.name,
     reductionPercentage |-> MathMax0(Percentage(f.size, n)),
     blob |-> SerializedBlob(n, "application/zip"), optimizationLogs |-> ls]

\* await JSZip.loadAsync(file) settles
ZipLoadAsync ==
    /\ pc = "zip_loadAsync"
    /\ \/ /\ args.file.content.kind = "zip"
          /\ LET entries == args.file.content.entries
                 images == FilterImages(entries, 1)
                 ls == Append(logs, Log("Found images", Len(images)))
             IN /\ zip' = entries
                /\ imageFiles' = images
                /\ logs' = ls
                /\ i' = 0
                /\ IF Len(images) = 0
                   THEN /\ progress' = 100
                        /\ Return(ZipEmptyResult(args.file, ls),
                                  <<Ev("load", 0, 0), Ev("log", 0, Len(ls)),
                                    Ev("progress", 0, 100)>>)
                   ELSE /\ pc' = "zip_loop"
                        /\ events' = events \o <<Ev("load", 0, 0), Ev("log", 0, Len(ls))>>
                        /\ UNCHANGED <<appVars, args, res>>
          /\ UNCHANGED pdfVars
       \/ Throw("ContainerLoadError")
    /\ UNCHANGED codec

\* where the loop goes after the entry at index i: the next entry, or out of
\* the loop into zip.generateAsync.  (ZipAfterBug leaves the loop after the
\* first entry it visits, a break for the end of the iteration.)
ZipAfterBug(n) == "zip_generateAsync"

ZipAfter(n) == IF i + 1 < n THEN "zip_loop" ELSE "zip_generateAsync"

\* if (skipPng && path.toLowerCase().endsWith('.png')) { logs.push; continue }
ZipSkipPng ==
    /\ pc = "zip_loop"
    /\ ZipSkips(args.skipPng, zip[imageFiles[i + 1]].path)
    /\ logs' = Append(logs, Log("Skipping PNG as requested", imageFiles[i + 1]))
    /\ events' = events \o <<Ev("skip", imageFiles[i + 1], 0), Ev("log", 0, Len(logs) + 1)>>
    /\ i' = i + 1
    /\ pc' = ZipAfter(Len(imageFiles))
    /\ UNCHANGED <<appVars, args, res, zip, imageFiles, pdfVars>>
    /\ UNCHANGED codec

\* await originalImage.async('blob') settles; the await sits outside the try
ZipEntryAsync ==
    /\ pc = "zip_loop"
    /\ ~ZipSkips(args.skipPng, zip[imageFiles[i + 1]].path)
    /\ \/ /\ pc' = "zip_compressImage"
          /\ events' = events \o <<Ev("read", imageFiles[i + 1], 0)>>
          /\ UNCHANGED <<appVars, args, res, zipVars, pdfVars, logs>>
       \/ Throw("EntryReadError")
    /\ UNCHANGED codec

\* await compressImage(imageBytes, quality) settles, inside the try; then the
\* accept rule, the catch (console.error, nothing pushed on logs), and the
\* progress report of the iteration
ZipCompressImage ==
    /\ pc = "zip_compressImage"
    /\ \E outcome \in CompressOutcomes :
          LET at == imageFiles[i + 1]
              imageBytes == zip[at].blob
              compressedImage == CompressImage(imageBytes, args.quality, outcome)
              replaces == outcome.ok /\ Accepts(compressedImage.size, imageBytes.size)
              p == ZipProgress(i, Len(imageFiles))
          IN /\ zip' = IF replaces THEN [zip EXCEPT ![at].blob = compressedImage] ELSE zip
             /\ progress' = p
             /\ events' = events
                   \o (IF outcome.ok THEN <<Ev("compressed", at, outcome.size)>>
                       ELSE <<Ev("compressFailed", at, 0), Ev("console.error", at, 0)>>)
                   \o (IF replaces THEN <<Ev("replace", at, outcome.size)>> ELSE <<>>)
                   \o <<Ev("progress", 0, p)>>
    /\ i' = i + 1
    /\ pc' = ZipAfter(Len(imageFiles))
    /\ UNCHANGED <<activeTab, quality, skipPng, file, isProcessing, result, error,
                   args, res, imageFiles, pdfVars, logs>>
    /\ UNCHANGED codec

\* await zip.generateAsync(...) settles; onProgress(100); return
ZipGenerateAsync ==
    /\ pc = "zip_generateAsync"
    /\ \/ \E n \in SerializedSizes :
             /\ progress' = 100
             /\ Return(ZipResult(args.file, n, logs),
                       <<Ev("serialized", 0, n), Ev("progress", 0, 100)>>)
             /\ UNCHANGED <<zipVars, pdfVars, logs>>
       \/ Throw("AssemblyError")
    /\ UNCHANGED codec

(***************************************************************************)
(* optimizePDF                                                             *)
(***************************************************************************)
\* xObject instanceof PDFDict || PDFRawStream, and its Subtype is Image
IsImageXObject(obj) ==
    /\ obj.kind \in {"PDFDict", "PDFRawStream"}
    /\ obj.subtype = "Image"

\* Set.prototype.add on a Set kept in insertion order.  (SetAddBug: an array
\* push, which keeps duplicates.)
SetAddBug(s, r) == Append(s, r)

SetAdd(s, r) == IF \E j \in 1..Len(s) : s[j] = r THEN s ELSE Append(s, r)

\* xObjects.entries().forEach(...) of one page
RECURSIVE CollectEntries(_, _, _, _)
CollectEntries(entries, j, objects, acc) ==
    IF j > Len(entries) THEN acc
    ELSE LET e == entries[j]
         IN CollectEntries(entries, j + 1, objects,
                IF e.isRef /\ IsImageXObject(objects[e.ref]) THEN SetAdd(acc, e.ref) ELSE acc)

\* pages.forEach(...): pages without a Resources or XObject PDFDict are left
RECURSIVE CollectImageRefs(_, _, _, _)
CollectImageRefs(pages, k, objects, acc) ==
    IF k > Len(pages) THEN acc
    ELSE CollectImageRefs(pages, k + 1, objects,
            IF pages[k].resources /\ pages[k].xobject
            THEN CollectEntries(pages[k].entries, 1, objects, acc)
            ELSE acc)

\* pdfDoc.context.flateStream(compressedBytes, {...}): the replacement stream;
\* its dictionary has no SMask entry
NewStream(blob) ==
    [kind |-> "PDFRawStream", subtype |-> "Image", smask |-> FALSE, blob |-> blob]

\* the zero-images return: the percentage is not clamped
PdfEmptyResult(f, n, ls) ==
    [originalSize |-> f.size, compressedSize |-> n, fileName |-> f.name,
     reductionPercentage |-> Percentage(f.size, n),
     blob |-> SerializedBlob(n, "application/pdf"), optimizationLogs |-> ls]

PdfResult(f, n, ls) ==
    [originalSize |-> f.size, compressedSize |-> n, fileName |-> f.name,
     reductionPercentage |-> MathMax0(Percentage(f.size, n)),
     blob |-> SerializedBlob(n, "application/pdf"), optimizationLogs |-> ls]

\* await file.arrayBuffer() settles
PdfArrayBuffer ==
    /\ pc = "pdf_arrayBuffer"
    /\ \/ /\ pc' = "pdf_load"
          /\ events' = events \o <<Ev("read", 0, 0)>>
          /\ UNCHANGED <<appVars, args, res, zipVars, pdfVars, logs>>
       \/ Throw("FileReadError")
    /\ UNCHANGED codec

\* the options object handed to pdfDoc.save after the loop; an option the
\* literal does not name is None (undefined: left to the library)
SaveOptions ==
    [useObjectStreams |-> Some(TRUE), addDefaultPage |-> Some(FALSE),
     updateFieldAppearances |-> Some(FALSE)]

\* the options object handed to pdfDoc.save on the zero-images path
SaveOptionsEmpty ==
    [useObjectStreams |-> Some(TRUE), addDefaultPage |-> None,
     updateFieldAppearances |-> None]

\* await PDFDocument.load(...) settles; the page traversal; on zero images
\* onProgress(100) and the call of pdfDoc.save({useObjectStreams})
PdfLoad ==
    /\ pc = "pdf_load"
    /\ \/ /\ args.file.content.kind = "pdf"
          /\ LET doc == [pages |-> args.file.content.pages,
                         objects |-> args.file.content.objects]
                 refs == CollectImageRefs(doc.pages, 1, doc.objects, <<>>)
             IN /\ pdfDoc' = doc
                /\ imageRefs' = refs
                /\ cursor' = 0
                /\ processedImages' = 0
                /\ IF Len(refs) = 0
                   THEN /\ progress' = 100
                        /\ events' = events \o <<Ev("load", 0, 0), Ev("progress", 0, 100),
                                                  Ev("save", 0, SaveOptionsEmpty)>>
                        /\ pc' = "pdf_save_empty"
                   ELSE /\ progress' = progress
                        /\ events' = events \o <<Ev("load", 0, 0)>>
                        /\ pc' = "pdf_loop"
          /\ UNCHANGED <<activeTab, quality, skipPng, file, isProcessing, result, error,
                         args, res, zipVars, logs>>
       \/ /\ args.file.content.kind # "pdf"
          /\ Throw("PdfLoadError")
    /\ UNCHANGED codec

\* await pdfDoc.save({ useObjectStreams: true }) of the zero-images path settles
PdfSaveEmpty ==
    /\ pc = "pdf_save_empty"
    /\ \/ \E n \in SerializedSizes :
             /\ Return(PdfEmptyResult(args.file, n, logs), <<Ev("serialized", 0, n)>>)
             /\ UNCHANGED <<progress, zipVars, pdfVars, logs>>
       \/ Throw("AssemblyError")
    /\ UNCHANGED codec

\* the end of one iteration of for (const ref of imageRefs): the next
\* reference, or onProgress(95) and the call of pdfDoc.save
PdfAfter(evs, p) ==
    /\ cursor' = cursor + 1
    /\ IF cursor + 1 < Len(imageRefs)
       THEN /\ pc' = "pdf_loop"
            /\ progress' = p
            /\ events' = events \o evs
       ELSE /\ pc' = "pdf_save"
            /\ progress' = 95
            /\ events' = events \o evs
                            \o <<Ev("progress", 0, 95), Ev("save", 0, SaveOptions)>>

\* if (!(imageObject instanceof PDFRawStream)) { processedImages++; continue }
\* (PdfSkipNotRawBug continues without counting the reference.)
PdfSkipNotRawBug ==
    /\ pc = "pdf_loop"
    /\ pdfDoc.objects[imageRefs[cursor + 1]].kind # "PDFRawStream"
    /\ processedImages' = processedImages
    /\ PdfAfter(<<Ev("skip", imageRefs[cursor + 1], 0)>>, progress)
    /\ UNCHANGED <<activeTab, quality, skipPng, file, isProcessing, result, error,
                   args, res, zipVars, pdfDoc, imageRefs, logs>>
    /\ UNCHANGED codec

PdfSkipNotRaw ==
    /\ pc = "pdf_loop"
    /\ pdfDoc.objects[imageRefs[cursor + 1]].kind # "PDFRawStream"
    /\ processedImages' = processedImages + 1
    /\ PdfAfter(<<Ev("skip", imageRefs[cursor + 1], 0)>>, progress)
    /\ UNCHANGED <<activeTab, quality, skipPng, file, isProcessing, result, error,
                   args, res, zipVars, pdfDoc, imageRefs, logs>>
    /\ UNCHANGED codec

\* hasSMask = imageObject.dict.has('SMask'); skipPng && hasSMask
PdfSkips(skip, obj) == skip /\ obj.smask

\* if (skipPng && hasSMask) { processedImages++; continue }
PdfSkipSMask ==
    /\ pc = "pdf_loop"
    /\ pdfDoc.objects[imageRefs[cursor + 1]].kind = "PDFRawStream"
    /\ PdfSkips(args.skipPng, pdfDoc.objects[imageRefs[cursor + 1]])
    /\ processedImages' = processedImages + 1
    /\ PdfAfter(<<Ev("skip", imageRefs[cursor + 1], 0)>>, progress)
    /\ UNCHANGED <<activeTab, quality, skipPng, file, isProcessing, result, error,
                   args, res, zipVars, pdfDoc, imageRefs, logs>>
    /\ UNCHANGED codec

\* await compressImage(blob, quality) settles, inside the try; the accept
\* rule and pdfDoc.context.assign(ref, newStream); the catch (console.error,
\* nothing pushed on logs); processedImages++ and the progress report
PdfCompressImage ==
    /\ pc = "pdf_loop"
    /\ pdfDoc.objects[imageRefs[cursor + 1]].kind = "PDFRawStream"
    /\ ~PdfSkips(args.skipPng, pdfDoc.objects[imageRefs[cursor + 1]])
    /\ \E outcome \in CompressOutcomes :
          LET ref == imageRefs[cursor + 1]
              bytes == pdfDoc.objects[ref].blob
              blob == [bytes EXCEPT !.type = "image/jpeg"]
              compressedBlob == CompressImage(blob, args.quality, outcome)
              replaces == outcome.ok /\ Accepts(compressedBlob.size, bytes.size)
              p == PdfProgress(processedImages + 1, Len(imageRefs))
          IN /\ pdfDoc' = IF replaces
                          THEN [pdfDoc EXCEPT !.objects[ref] = NewStream(compressedBlob)]
                          ELSE pdfDoc
             /\ processedImages' = processedImages + 1
             /\ PdfAfter((IF outcome.ok THEN <<Ev("compressed", ref, outcome.size)>>
                          ELSE <<Ev("compressFailed", ref, 0), Ev("console.error", ref, 0)>>)
                         \o (IF replaces THEN <<Ev("replace", ref, outcome.size)>> ELSE <<>>)
                         \o <<Ev("progress", 0, p)>>, p)
    /\ UNCHANGED <<activeTab, quality, skipPng, file, isProcessing, result, error,
                   args, res, zipVars, imageRefs, logs>>
    /\ UNCHANGED codec

\* await pdfDoc.save({useObjectStreams, addDefaultPage: false,
\* updateFieldAppearances: false}) settles; onProgress(100); return
PdfSave ==
    /\ pc = "pdf_save"
    /\ \/ \E n \in SerializedSizes :
             /\ progress' = 100
             /\ Return(PdfResult(args.file, n, logs),
                       <<Ev("serialized", 0, n), Ev("progress", 0, 100)>>)
             /\ UNCHANGED <<zipVars, pdfVars, logs>>
       \/ Throw("AssemblyError")
    /\ UNCHANGED codec

(***************************************************************************)
(* compressImage taken by itself: the call, the two callbacks of the Image *)
(* and the callback of canvas.toBlob.  In the walkers the whole call is    *)
(* the one step in which its promise settles.                              *)
(***************************************************************************)
runVars == <<appVars, pc, args, res, zipVars, pdfVars, logs, events>>

\* no call under way
NoCodec ==
    [pc |-> "none", blob |-> NoBlob, quality |-> 0, targetMime |-> "", objectUrl |-> "none",
     canvas |-> <<>>, encoder |-> None, settled |-> None]

\* compressImage(blob, quality) about to run, for a blob of any declared type
CodecCalls ==
    {[NoCodec EXCEPT !.pc = "called",
                     !.blob = [size |-> AssetSize, type |-> t, data |-> "original"],
                     !.quality = q] : t \in TypeInputs, q \in Qualities}

\* how the promise settles
Reject(msg) == Some([ok |-> FALSE, blob |-> NoBlob, error |-> msg])

Resolve(blob) == Some([ok |-> TRUE, blob |-> blob, error |-> ""])

\* the synchronous part: targetMime, URL.createObjectURL, new Promise, img.src
CompressImageCall ==
    /\ codec.pc = "called"
    /\ codec' = [codec EXCEPT !.targetMime = TargetMime(codec.blob.type),
                              !.objectUrl = "live",
                              !.pc = "img_loading"]
    /\ UNCHANGED runVars

\* img.onload: no 2d context, or the white fill for JPEG, drawImage and the
\* call of canvas.toBlob(callback, targetMime, quality / 100)
ImgOnload ==
    /\ codec.pc = "img_loading"
    /\ \/ codec' = [codec EXCEPT !.objectUrl = "revoked",
                                 !.settled = Reject("Canvas context failed"),
                                 !.pc = "settled"]
       \/ codec' = [codec EXCEPT
                       !.canvas = (IF codec.targetMime = "image/jpeg"
                                   THEN <<"fillRect #FFFFFF">> ELSE <<>>)
                                  \o <<"drawImage">>,
                       !.encoder = Some([mime |-> codec.targetMime,
                                         quality |-> [num |-> codec.quality, den |-> 100]]),
                       !.pc = "toBlob"]
    /\ UNCHANGED runVars

\* img.onerror
ImgOnerror ==
    /\ codec.pc = "img_loading"
    /\ codec' = [codec EXCEPT !.objectUrl = "revoked",
                              !.settled = Reject("Failed to load image for compression"),
                              !.pc = "settled"]
    /\ UNCHANGED runVars

\* the callback of canvas.toBlob: the encoded blob, or null
ToBlobCallback ==
    /\ codec.pc = "toBlob"
    /\ \/ \E outcome \in CompressOutcomes \ {Rejected} :
             codec' = [codec EXCEPT
                         !.objectUrl = "revoked",
                         !.settled = Resolve(CompressImage(codec.blob, codec.quality, outcome)),
                         !.pc = "settled"]
       \/ codec' = [codec EXCEPT !.objectUrl = "revoked",
                                 !.settled = Reject("Compression failed"),
                                 !.pc = "settled"]
    /\ UNCHANGED runVars

(***************************************************************************)
(* The handlers of App.                                                    *)
(***************************************************************************)
\* handleFileChange, with a file chosen in the picker; the picker is rendered
\* when !result
HandleFileChange(selected) ==
    /\ result = None
    /\ file' = Some(selected)
    /\ result' = None
    /\ error' = None
    /\ progress' = 0
    /\ UNCHANGED <<activeTab, quality, skipPng, isProcessing, pc, args, res,
                   zipVars, pdfVars, logs, events>>
    /\ UNCHANGED codec

\* reset(): setFile(null); setResult(null); setError(null); setProgress(0)
ResetCells ==
    /\ file' = None
    /\ result' = None
    /\ error' = None
    /\ progress' = 0

\* the reset button of the result view, rendered when result
Reset ==
    /\ result # None
    /\ ResetCells
    /\ UNCHANGED <<activeTab, quality, skipPng, isProcessing, pc, args, res,
                   zipVars, pdfVars, logs, events>>
    /\ UNCHANGED codec

\* a tab button: setActiveTab(tab); reset()
SelectTab(tab) ==
    /\ activeTab' = tab
    /\ ResetCells
    /\ UNCHANGED <<quality, skipPng, isProcessing, pc, args, res,
                   zipVars, pdfVars, logs, events>>
    /\ UNCHANGED codec

\* the quality slider of Layout: setQuality(parseInt(e.target.value))
SetQuality(q) ==
    /\ quality' = q
    /\ UNCHANGED <<activeTab, skipPng, file, isProcessing, progress, result, error,
                   pc, args, res, zipVars, pdfVars, logs, events>>
    /\ UNCHANGED codec

\* setSkipPng, handed to Layout
SetSkipPng(b) ==
    /\ skipPng' = b
    /\ UNCHANGED <<activeTab, quality, file, isProcessing, progress, result, error,
                   pc, args, res, zipVars, pdfVars, logs, events>>
    /\ UNCHANGED codec

(***************************************************************************)
(* Specifications.                                                         *)
(***************************************************************************)
Idle ==
    /\ isProcessing = FALSE /\ progress = 0 /\ result = None /\ error = None
    /\ pc = "idle" /\ args = NoArgs /\ res = None
    /\ zip = <<>> /\ imageFiles = <<>> /\ i = 0
    /\ pdfDoc = NoPdf /\ imageRefs = <<>> /\ cursor = 0 /\ processedImages = 0
    /\ logs = <<>> /\ events = <<>>

\* one run, or several in a row, of runOptimization on any generated
\* document under any settings: the state of App once the user has picked
\* the tab, the settings and the file
WalkerInit ==
    /\ activeTab \in Tabs
    /\ quality \in Qualities
    /\ skipPng \in BOOLEAN
    /\ file \in {Some(f) : f \in Files}
    /\ Idle
    /\ codec = NoCodec

WalkerStep ==
    \/ ZipLoadAsync \/ ZipSkipPng \/ ZipEntryAsync \/ ZipCompressImage \/ ZipGenerateAsync
    \/ PdfArrayBuffer \/ PdfLoad \/ PdfSaveEmpty
    \/ PdfSkipNotRaw \/ PdfSkipSMask \/ PdfCompressImage \/ PdfSave

WalkerNext == RunOptimization \/ WalkerStep

WalkerSpec == WalkerInit /\ [][WalkerNext]_vars

\* the documents the picker of App offers: an archive with a JPEG and a PNG
\* entry, an archive without images, a PDF whose two pages show a plain and
\* a soft-masked image stream, a PDF whose image is not a raw stream, a PDF
\* without images, and a file that is neither
FileOf(c) == [name |-> "doc", size |-> FileSize, content |-> c]

PageOf(r) == [resources |-> TRUE, xobject |-> TRUE, entries |-> <<RefEntry(r)>>]

AppFiles ==
    {FileOf([kind |-> "zip", entries |-> ZipEntriesOf(<<"jpg", "png">>),
             pages |-> <<>>, objects |-> <<>>]),
     FileOf([kind |-> "zip", entries |-> ZipEntriesOf(<<"xml">>),
             pages |-> <<>>, objects |-> <<>>]),
     FileOf([kind |-> "pdf", entries |-> <<>>, pages |-> <<PageOf(1), PageOf(MaxObjs)>>,
             objects |-> [r \in 1..MaxObjs |-> IF r = 1 THEN RawImage ELSE RawImageSMask]]),
     FileOf([kind |-> "pdf", entries |-> <<>>, pages |-> <<PageOf(1)>>,
             objects |-> [r \in 1..MaxObjs |-> DictImage]]),
     FileOf([kind |-> "pdf", entries |-> <<>>, pages |-> <<>>,
             objects |-> [r \in 1..MaxObjs |-> RawForm]]),
     FileOf(InvalidContent)}

\* App as constructed: the initial values of its useState cells
Init ==
    /\ activeTab = "HWPX"
    /\ quality = 70
    /\ skipPng = TRUE
    /\ file = None
    /\ Idle
    /\ codec = NoCodec

UserStep ==
    \/ \E selected \in AppFiles : HandleFileChange(selected)
    \/ Reset
    \/ \E tab \in Tabs : SelectTab(tab)
    \/ \E q \in Qualities : SetQuality(q)
    \/ \E b \in BOOLEAN : SetSkipPng(b)

Next == RunOptimization \/ WalkerStep \/ UserStep

Spec == Init /\ [][Next]_vars

\* compressImage called on a blob of any declared type at any quality, App
\* as constructed and no run under way
CompressInit ==
    /\ activeTab = "HWPX"
    /\ quality = 70
    /\ skipPng = TRUE
    /\ file = None
    /\ Idle
    /\ codec \in CodecCalls

CompressNext == CompressImageCall \/ ImgOnload \/ ImgOnerror \/ ToBlobCallback

CompressSpec == CompressInit /\ [][CompressNext]_vars

(***************************************************************************)
(* What a run did, read from its history and its state.                    *)
(***************************************************************************)
\* the values passed to onProgress so far, in order
Reports ==
    LET s == SelectSeq(events, LAMBDA e : e.ev = "progress")
    IN [j \in 1..Len(s) |-> s[j].val]

\* the positions in the history where compressImage settled for asset at
CompressCalls(at) ==
    {j \in 1..Len(events) : events[j].ev \in {"compressed", "compressFailed"}
                            /\ events[j].at = at}

HasEvent(e) == \E j \in 1..Len(events) : events[j].ev = e

InZip == args.walker = "optimizeZipBasedDoc"

InPdf == args.walker = "optimizePDF"

\* the walker has returned a result (runOptimization has stored it in res)
Returned == pc = "returned" /\ res # None

\* the document the run was given
Input == args.file.content

\* the bytes the document now holds for asset at (an entry index, a reference)
AssetNow(at) == IF InZip THEN zip[at].blob ELSE pdfDoc.objects[at].blob

(***************************************************************************)
(* C1: in either walker, every returned result has reductionPercentage     *)
(* >= 0, on every return path, also when the output is larger than the     *)
(* input.  Violated: the zero-images return of optimizePDF does not clamp.  *)
(***************************************************************************)
C1_ReductionNeverNegative ==
    Returned => res[1].reductionPercentage.num >= 0

(***************************************************************************)
(* C2 as stated: for a document with zero eligible images, in either       *)
(* walker, the returned bytes are the input bytes (nothing re-serialized   *)
(* is substituted) and reductionPercentage is 0.                           *)
(***************************************************************************)
\* no entry of the input archive has a raster extension
NoImageEntries(c) ==
    \A j \in 1..Len(c.entries) :
        ToLowerCase(c.entries[j].path.ext) \notin {"jpg", "jpeg", "png", "gif", "bmp"}

\* no page of the input PDF names, through a PDFRef in the XObject PDFDict of
\* its Resources PDFDict, an object whose Subtype is Image
NoImageObjects(c) ==
    \A k \in 1..Len(c.pages) :
        c.pages[k].resources /\ c.pages[k].xobject =>
            \A j \in 1..Len(c.pages[k].entries) :
                LET e == c.pages[k].entries[j]
                IN ~(e.isRef /\ c.objects[e.ref].subtype = "Image")

C2_ZeroImagesReturnInput ==
    /\ Returned /\ InZip /\ NoImageEntries(Input) =>
          res[1].blob.data = "input" /\ res[1].reductionPercentage.num = 0
    /\ Returned /\ InPdf /\ NoImageObjects(Input) =>
          res[1].blob.data = "input" /\ res[1].reductionPercentage.num = 0

(***************************************************************************)
(* C2 amended: for an archive without image-extension entries the          *)
(* container walker returns the input File itself, compressedSize =        *)
(* originalSize and reductionPercentage 0, without serializing; for a PDF  *)
(* without image objects the PDF walker returns the re-serialization of    *)
(* the unmodified document (no object reassigned, the codec never called), *)
(* compressedSize is its length, and reductionPercentage is positive       *)
(* exactly when it is shorter than the input and 0 when it is as long.     *)
(***************************************************************************)
C2_ZeroImages ==
    /\ Returned /\ InZip /\ NoImageEntries(Input) =>
          /\ res[1].blob = InputBlob(args.file)
          /\ res[1].compressedSize = res[1].originalSize
          /\ res[1].reductionPercentage.num = 0
          /\ ~HasEvent("serialized")
          /\ zip = Input.entries
    /\ Returned /\ InPdf /\ NoImageObjects(Input) =>
          /\ res[1].blob = SerializedBlob(res[1].compressedSize, "application/pdf")
          /\ HasEvent("serialized")
          /\ pdfDoc.objects = Input.objects
          /\ ~HasEvent("compressed") /\ ~HasEvent("compressFailed")
          /\ (res[1].reductionPercentage.num > 0
                <=> res[1].compressedSize < res[1].originalSize)
          /\ (res[1].compressedSize = res[1].originalSize
                => res[1].reductionPercentage.num = 0)

\* an archive whose only entry is not an image has been returned as it came
C2_Witness ==
    /\ Returned /\ InZip /\ NoImageEntries(Input)
    /\ Len(Input.entries) = 1
    /\ res[1].blob.data = "input"

(***************************************************************************)
(* C3: in both walkers, an asset on which compressImage succeeded is       *)
(* replaced in the document iff the encoded size is strictly less than the *)
(* asset's size; an equal or larger result leaves the original bytes.      *)
(***************************************************************************)
\* the asset's bytes as they were in the input document
AssetBefore(at) ==
    IF InZip THEN Input.entries[at].blob ELSE Input.objects[at].blob

C3_ReplacedIffSmaller ==
    \A j \in 1..Len(events) :
        events[j].ev = "compressed" =>
            LET at == events[j].at
                n == events[j].val
            IN IF n < AssetBefore(at).size
               THEN AssetNow(at).data = "recompressed" /\ AssetNow(at).size = n
               ELSE AssetNow(at) = AssetBefore(at)

\* one run kept an asset whose encoding came out as large as the original and
\* replaced another whose encoding came out smaller
C3_Witness ==
    \E j, k \in 1..Len(events) :
        /\ events[j].ev = "compressed" /\ events[k].ev = "compressed"
        /\ events[j].val = AssetBefore(events[j].at).size
        /\ AssetNow(events[j].at).data = "original"
        /\ events[k].val < AssetBefore(events[k].at).size
        /\ AssetNow(events[k].at).data = "recompressed"

(***************************************************************************)
(* C4: with skipPng (skipAlpha) true the container walker neither calls    *)
(* compressImage on nor changes an entry whose path ends in .png (in any   *)
(* letter case), and the PDF walker neither calls it on nor changes an     *)
(* image stream whose dictionary has an SMask; with skipPng false a run    *)
(* that returns has called compressImage once on each such asset and       *)
(* applied the accept rule to it.                                          *)
(***************************************************************************)
\* the accept rule on asset at, whatever the codec gave
AcceptRuleAt(at) ==
    \A j \in CompressCalls(at) :
        IF events[j].ev = "compressed" /\ events[j].val < AssetBefore(at).size
        THEN AssetNow(at).data = "recompressed" /\ AssetNow(at).size = events[j].val
        ELSE AssetNow(at) = AssetBefore(at)

\* page k of document c names object r through a PDFRef of its XObject PDFDict
PageShows(c, k, r) ==
    /\ c.pages[k].resources /\ c.pages[k].xobject
    /\ \E j \in 1..Len(c.pages[k].entries) :
          c.pages[k].entries[j].isRef /\ c.pages[k].entries[j].ref = r

\* the soft-masked image streams some page of the input shows
MaskedStreams(c) ==
    {r \in 1..Len(c.objects) :
        /\ c.objects[r].kind = "PDFRawStream" /\ c.objects[r].subtype = "Image"
        /\ c.objects[r].smask
        /\ \E k \in 1..Len(c.pages) : PageShows(c, k, r)}

PngEntries(c) == {j \in 1..Len(c.entries) : ToLowerCase(c.entries[j].path.ext) = "png"}

C4_SkipAlpha ==
    /\ InZip /\ HasEvent("load") /\ args.skipPng =>
          \A j \in PngEntries(Input) :
              zip[j].blob = Input.entries[j].blob /\ CompressCalls(j) = {}
    /\ InPdf /\ HasEvent("load") /\ args.skipPng =>
          \A r \in MaskedStreams(Input) :
              pdfDoc.objects[r] = Input.objects[r] /\ CompressCalls(r) = {}
    /\ Returned /\ InZip /\ ~args.skipPng =>
          \A j \in PngEntries(Input) :
              Cardinality(CompressCalls(j)) = 1 /\ AcceptRuleAt(j)
    /\ Returned /\ InPdf /\ ~args.skipPng =>
          \A r \in MaskedStreams(Input) :
              Cardinality(CompressCalls(r)) = 1 /\ AcceptRuleAt(r)

\* a run with skipPng on returned having replaced a JPEG entry and left the
\* PNG entry beside it alone
C4_Witness ==
    /\ Returned /\ InZip /\ args.skipPng
    /\ \E j \in PngEntries(Input) : zip[j].blob = Input.entries[j].blob
    /\ \E j \in 1..Len(zip) : zip[j].blob.data = "recompressed"

(***************************************************************************)
(* C5: the PDF walker collects image references into a set, so whatever    *)
(* the number of pages showing an image object compressImage is called at  *)
(* most once for it in a run, and an accepted replacement is assigned onto *)
(* that reference: every page showing it resolves to the rewritten stream. *)
(***************************************************************************)
C5_OncePerReference ==
    InPdf =>
        /\ \A a, b \in 1..Len(imageRefs) : a # b => imageRefs[a] # imageRefs[b]
        /\ \A r \in 1..Len(pdfDoc.objects) : Cardinality(CompressCalls(r)) <= 1
        /\ \A j \in 1..Len(events) :
              events[j].ev = "replace" =>
                  \A k \in 1..Len(pdfDoc.pages) :
                      \A e \in 1..Len(pdfDoc.pages[k].entries) :
                          LET x == pdfDoc.pages[k].entries[e]
                          IN x.isRef /\ x.ref = events[j].at =>
                                /\ pdfDoc.objects[x.ref].kind = "PDFRawStream"
                                /\ pdfDoc.objects[x.ref].blob.data = "recompressed"
                                /\ pdfDoc.objects[x.ref].blob.size = events[j].val

\* a returned run on a PDF whose two pages show the same image object, which
\* was recompressed once and replaced
C5_Witness ==
    /\ Returned /\ InPdf
    /\ \E r \in 1..Len(pdfDoc.objects) :
          /\ Cardinality({k \in 1..Len(pdfDoc.pages) : PageShows(pdfDoc, k, r)}) >= 2
          /\ Cardinality(CompressCalls(r)) = 1
          /\ pdfDoc.objects[r].blob.data = "recompressed"

(***************************************************************************)
(* C6: within one run of either walker the values passed to onProgress are *)
(* non-decreasing and lie in 0..100, whatever the number of images, the    *)
(* mix of skipped, failed, kept and replaced assets, and the return path.  *)
(***************************************************************************)
C6_ProgressMonotone ==
    \A j \in 1..Len(Reports) :
        /\ Reports[j] \in 0..100
        /\ j > 1 => Reports[j - 1] <= Reports[j]

\* a returned run that saw the codec fail on one asset and replaced another
C6_Witness ==
    /\ Returned
    /\ HasEvent("compressFailed") /\ HasEvent("replace")
    /\ Len(Reports) >= 4

(***************************************************************************)
(* C7: a per-asset failure (reading the asset's bytes, decoding, encoding) *)
(* never fails the run: the asset stays as it was, the later assets are    *)
(* still visited, and the run goes on to serialize.  So a run that opened  *)
(* its document can fail only once every discovered image has been         *)
(* visited.  Violated: await originalImage.async('blob') of the container  *)
(* walker is outside the try.                                              *)
(***************************************************************************)
C7_AssetFailureNeverFatal ==
    /\ \A j \in 1..Len(events) :
          events[j].ev = "compressFailed" => AssetNow(events[j].at) = AssetBefore(events[j].at)
    /\ pc = "threw" /\ HasEvent("load") =>
          /\ InZip => i = Len(imageFiles)
          /\ InPdf => cursor = Len(imageRefs)

(***************************************************************************)
(* C8: runOptimization calls exactly one walker per run, the container     *)
(* walker on the HWPX and PPTX/SHOW tabs and the PDF walker on the PDF     *)
(* tab, once and with no retry; when the walker fails fatally (loading or  *)
(* final serialization) no result is returned or stored and the error is   *)
(* shown.  Stated on every step of App, the user's steps interleaved.      *)
(***************************************************************************)
\* the walker calls in a history
WalkerCalls(evs) ==
    {j \in 1..Len(evs) : evs[j].ev \in {"optimizeZipBasedDoc", "optimizePDF"}}

C8_Step ==
    /\ (~Running /\ Running') =>
          /\ activeTab \in {"HWPX", "PPTX_SHOW"} => events'[1].ev = "optimizeZipBasedDoc"
          /\ activeTab = "PDF" => events'[1].ev = "optimizePDF"
    /\ Running' \/ Running => WalkerCalls(events') = {1}
    /\ (Running /\ pc' = "threw") =>
          /\ res' = None
          /\ result' = None
          /\ error' # None

C8_OneWalkerNoRetry == [][C8_Step]_vars

\* a run of the container walker that replaced an entry failed in
\* zip.generateAsync: the error is shown and nothing is stored
C8_Witness ==
    /\ pc = "threw" /\ InZip
    /\ HasEvent("replace")
    /\ error = Some("AssemblyError")
    /\ result = None

(***************************************************************************)
(* C9 as stated: for an archive without image-extension entries the run of *)
(* the container walker makes a single progress report, of 100, after the  *)
(* "Found 0 images" line was logged; the input is returned, with           *)
(* reductionPercentage 0.                                                  *)
(***************************************************************************)
C9_SingleReport ==
    Returned /\ InZip /\ NoImageEntries(Input) =>
        /\ Reports = <<100>>
        /\ res[1].blob.data = "input"
        /\ res[1].reductionPercentage.num = 0

(***************************************************************************)
(* C9 amended: such a run makes two progress reports: 5 on entry, before   *)
(* the archive is loaded and before the "Found 0 images" line, and after   *)
(* that line a single one, of 100; the input is returned, with             *)
(* reductionPercentage 0.                                                  *)
(***************************************************************************)
\* the progress values reported at the positions js of the history
ReportsAt(js) == {<<j, events[j].val>> : j \in {k \in js : events[k].ev = "progress"}}

C9_ZeroImagesReports ==
    Returned /\ InZip /\ NoImageEntries(Input) =>
        /\ Reports = <<5, 100>>
        /\ res[1].optimizationLogs =
              <<Log("Starting optimization for", 0), Log("Found images", 0)>>
        /\ \E l \in 1..Len(events) :
              /\ events[l].ev = "log" /\ logs[events[l].val] = Log("Found images", 0)
              /\ \E b \in 1..(l - 1) : ReportsAt(1..(l - 1)) = {<<b, 5>>}
              /\ \E a \in (l + 1)..Len(events) : ReportsAt((l + 1)..Len(events)) = {<<a, 100>>}
        /\ res[1].blob = InputBlob(args.file)
        /\ res[1].reductionPercentage.num = 0

\* an archive of several entries, none an image, came back after the
\* reports 5 and 100
C9_Witness ==
    /\ Returned /\ InZip /\ NoImageEntries(Input)
    /\ Len(Input.entries) >= 2
    /\ Reports = <<5, 100>>

(***************************************************************************)
(* C10: for an archive with n >= 1 image entries none of which is skipped  *)
(* the container walker logs "Found n images", makes one progress report   *)
(* per entry, the k-th equal to 10 + round(80 * k / n) and within [10, 90],*)
(* and, when it returns, has made exactly n of them and then a last report *)
(* of 100.                                                                 *)
(***************************************************************************)
ImageEntries(c) ==
    {j \in 1..Len(c.entries) :
        ToLowerCase(c.entries[j].path.ext) \in {"jpg", "jpeg", "png", "gif", "bmp"}}

\* round(num / den): the integer nearest to num / den, halves up
Nearest(num, den) ==
    CHOOSE r \in 0..num : 2 * den * r <= 2 * num + den /\ 2 * num + den < 2 * den * (r + 1)

C10_PerEntryReports ==
    LET n == Cardinality(ImageEntries(Input))
        expected == <<5>> \o [k \in 1..n |-> 10 + Nearest(80 * k, n)] \o <<100>>
    IN InZip /\ HasEvent("load") /\ n >= 1
          /\ ~(args.skipPng /\ PngEntries(Input) # {}) =>
          /\ logs[2] = Log("Found images", n)
          /\ Len(Reports) <= Len(expected)
          /\ \A k \in 1..Len(Reports) : Reports[k] = expected[k]
          /\ \A k \in 2..Len(Reports) : k <= n + 1 => Reports[k] \in 10..90
          /\ pc \in {"returned", "threw"} \/ Len(Reports) = 1 + i
          /\ Returned => Reports = expected

\* two image entries, none skipped: the reports were 5, 50, 90 and 100
C10_Witness ==
    /\ Returned /\ InZip
    /\ Cardinality(ImageEntries(Input)) = 2
    /\ ~(args.skipPng /\ PngEntries(Input) # {})
    /\ Reports = <<5, 50, 90, 100>>

(***************************************************************************)
(* C11: in both walkers the output document is serialized                  *)
(* (zip.generateAsync, pdfDoc.save) only after the decision (skip, keep or *)
(* replace) has been made for every discovered image, and once             *)
(* serialization has started no image is read, recompressed or reassigned  *)
(* in that run: the document stays as it was when the serializer was       *)
(* called.                                                                 *)
(***************************************************************************)
\* the images the run discovered: entry indices, or references
Discovered ==
    IF InZip THEN {imageFiles[j] : j \in 1..Len(imageFiles)}
    ELSE {imageRefs[j] : j \in 1..Len(imageRefs)}

\* the positions in the history where the decision on asset at was made
Decisions(at) ==
    {j \in 1..Len(events) :
        events[j].ev \in {"skip", "compressed", "compressFailed"} /\ events[j].at = at}

\* the serializer has been called in this run (and has perhaps settled)
SerializationStarted ==
    \/ pc \in {"zip_generateAsync", "pdf_save", "pdf_save_empty"}
    \/ HasEvent("serialized")

C11_Step ==
    /\ SerializationStarted' =>
          \A at \in Discovered' : Cardinality(Decisions(at)') = 1
    /\ SerializationStarted /\ pc' \notin {"zip_loadAsync", "pdf_arrayBuffer"} =>
          /\ zip' = zip
          /\ pdfDoc' = pdfDoc
          /\ Len(events') >= Len(events)
          /\ \A j \in 1..Len(events') :
                j > Len(events) =>
                    events'[j].ev \in {"serialized", "progress", "return", "throw"}

C11_SerializedAfterDecisions == [][C11_Step]_vars

\* both assets of a document were decided, one of them replaced, before the
\* serializer was called, and the serializer has produced the output
C11_Witness ==
    /\ Returned /\ HasEvent("serialized") /\ HasEvent("replace")
    /\ Cardinality(Discovered) = 2
    /\ \A at \in Discovered :
          \E j \in Decisions(at), k \in 1..Len(events) :
              events[k].ev = "serialized" /\ j < k

(***************************************************************************)
(* C12: when compressImage fails on one asset, a line is appended to the   *)
(* run's logs (the optimizationLogs of the result), the asset stays as it  *)
(* was and the run goes on.  Violated: both catch blocks write to the      *)
(* console and push nothing on logs.                                       *)
(***************************************************************************)
\* a line was pushed on logs for the failure at position j of the history,
\* before the walker turned to the next asset
LoggedAfter(j) ==
    \E l \in (j + 1)..Len(events) :
        /\ events[l].ev = "log"
        /\ \A k \in (j + 1)..(l - 1) :
              events[k].ev \notin {"read", "skip", "compressed", "compressFailed",
                                   "serialized"}

C12_FailureLogged ==
    \A j \in 1..Len(events) :
        events[j].ev = "compressFailed" =>
            /\ AssetNow(events[j].at) = AssetBefore(events[j].at)
            /\ j < Len(events) /\ events[j + 1].ev # "throw"
            /\ Returned =>
                  /\ LoggedAfter(j)
                  /\ Len(res[1].optimizationLogs) > 1

(***************************************************************************)
(* C13 as stated: in the PDF walker every unique image reference is        *)
(* counted as processed exactly once (also one whose target is not a raw   *)
(* stream, and one skipped for a soft mask), and a progress report is made *)
(* per reference processed, 15 + round(75 * processed / total), within     *)
(* [15, 90], so that 90 has been reported once all references are          *)
(* processed.                                                              *)
(***************************************************************************)
\* the positions in the history where a decision on some asset was made
AllDecisions ==
    {j \in 1..Len(events) : events[j].ev \in {"skip", "compressed", "compressFailed"}}

\* the reports made for the decision at position j, D the positions of all
\* decisions: the progress events between it and the next decision
ReportsFor(j, D) ==
    {l \in (j + 1)..Len(events) :
        /\ events[l].ev = "progress"
        /\ \A k \in D : ~(j < k /\ k < l)}

\* how many references were counted as processed when the decision at j was made
ProcessedAt(j, D) == Cardinality({d \in D : d <= j})

\* every reference is counted once, in the order of the set
CountedOnce ==
    /\ processedImages = Cardinality(AllDecisions)
    /\ processedImages <= Len(imageRefs)
    /\ \A k \in 1..Len(imageRefs) :
          Cardinality(Decisions(imageRefs[k])) = IF k <= processedImages THEN 1 ELSE 0
    /\ SerializationStarted => processedImages = Len(imageRefs)

C14_SaveOptions ==
    InPdf =>
        \A j \in 1..Len(events) :
            events[j].ev = "save" =>
                /\ events[j].val.useObjectStreams = Some(TRUE)
                /\ events[j].val.addDefaultPage = Some(FALSE)
                /\ events[j].val.updateFieldAppearances = Some(FALSE)
                /\ Len(imageRefs) = 0 =>
                      /\ pdfDoc.objects = Input.objects
                      /\ pdfDoc.pages = Input.pages
                      /\ ~HasEvent("replace")

(***************************************************************************)
(* C15: compressImage targets WEBP exactly when the declared type of the   *)
(* source blob is PNG or GIF; in every other case it targets JPEG and      *)
(* fills the canvas with opaque white before it draws the image; the       *)
(* encoder is given the target type; the promise resolves with the encoded *)
(* bytes or rejects, and nothing of the walkers' or App's state changes.   *)
(***************************************************************************)
\* the image format a declared type names
DeclaredFormat(type) ==
    CASE type \in {"image/png", "image/x-png"} -> "PNG"
      [] type = "image/gif" -> "GIF"
      [] type \in {"image/jpeg", "image/jpg"} -> "JPEG"
      [] type = "image/webp" -> "WEBP"
      [] type = "image/bmp" -> "BMP"
      [] OTHER -> "undeclared"

C15_TargetFormat ==
    codec.pc \notin {"none", "called"} =>
        /\ IF DeclaredFormat(codec.blob.type) \in {"PNG", "GIF"}
           THEN codec.targetMime = "image/webp"
           ELSE codec.targetMime = "image/jpeg"
        /\ codec.encoder # None =>
              /\ codec.encoder[1].mime = codec.targetMime
              /\ codec.canvas = IF DeclaredFormat(codec.blob.type) \in {"PNG", "GIF"}
                                THEN <<"drawImage">>
                                ELSE <<"fillRect #FFFFFF", "drawImage">>
        /\ codec.pc = "settled" =>
              /\ codec.settled # None
              /\ codec.settled[1].ok =>
                    /\ codec.settled[1].blob.data = "recompressed"
                    /\ codec.encoder # None
              /\ ~codec.settled[1].ok => codec.settled[1].blob = NoBlob
        /\ Idle /\ file = None

\* a PNG blob came back encoded as WEBP, drawn on a canvas left transparent
C15_Witness ==
    /\ codec.pc = "settled" /\ codec.settled[1].ok
    /\ codec.blob.type = "image/png"
    /\ codec.encoder[1].mime = "image/webp"
    /\ codec.canvas = <<"drawImage">>

(***************************************************************************)
(* C16: in either walker 100 is reported only once the output document     *)
(* exists: after the serializer has produced it, or, for an archive        *)
(* without images, when the input is about to be returned as it is; so no  *)
(* run that ends in an error has reported 100.  Violated: on its           *)
(* zero-images path optimizePDF calls onProgress(100) before pdfDoc.save.  *)
(***************************************************************************)
C16_HundredAfterOutput ==
    /\ \A j \in 1..Len(events) :
          events[j].ev = "progress" /\ events[j].val = 100 =>
              \/ \E k \in 1..(j - 1) : events[k].ev = "serialized"
              \/ /\ InZip /\ Len(imageFiles) = 0
                 /\ \E k \in 1..(j - 1) : events[k].ev = "load"
    /\ pc = "threw" => \A j \in 1..Len(Reports) : Reports[j] # 100

(***************************************************************************)
(* C17: in App, however file selection, tab switch, reset and the          *)
(* completion of runOptimization interleave, at most one run is under way  *)
(* (while one is, isProcessing is true and the start button is not         *)
(* rendered), and a non-null result is the result of a run on the file and *)
(* tab now selected: after reset, a tab switch or a new file selection,    *)
(* result is null until a run started afterwards completes.  Violated: a   *)
(* run that completes after the user switched tab or picked another file   *)
(* still stores its result.                                                *)
(***************************************************************************)
\* no run can be started while one is under way
OneRunAtATime ==
    /\ Running => isProcessing
    /\ Running => ~ENABLED RunOptimization

C17_ResultIsCurrent ==
    /\ OneRunAtATime
    /\ result # None =>
          /\ file = Some(args.file)
          /\ WalkerOf(activeTab) = args.walker
          /\ result = res

====
